---- MODULE Spec2Model ----
(***************************************************************************)
(* Symbi-OS: the partnership discovery engine (scripts/compute_matches.js) *)
(* over the Neo4j graph of Company and WasteMaterial nodes, together with  *)
(* the operations of the repository that change that graph.                *)
(*                                                                         *)
(* Numbers: a similarity is a rational shared / denominator.  The stored   *)
(* score is kept in thousandths (0.333 is 333), the threshold 0.12 in      *)
(* hundredths (12).  For the small integers of a graph the float division  *)
(* and comparison of the query agree with the exact rational ones.         *)
(***************************************************************************)
EXTENDS Integers, FiniteSets, Sequences, TLC

\* ---- bounds of the model ------------------------------------------------
NumCompanies == 2
NumMaterials == 4
NumRuns == 2
MaxMutations == 1
NumNamed == 6
NumQueried == 2
MaxDemands == 2
MaxResults == 1
NumPartners == 9
MaxEdges == 31
NumRegulations == 1
MaxShared == 11
MaxUnion == 92
NumStamped == 3
NumRequests == 2
MaxQuantity == 2
NumCalls == 3

\* ---- program constants --------------------------------------------------
\* const JACCARD_THRESHOLD = 0.12, in hundredths
JACCARD_THRESHOLD == 12
\* r.shared_names = sharedNames[0..5]
SHARED_NAMES_LIMIT == 5
\* ORDER BY r.score DESC LIMIT 30 of GET /api/hybrid-search
INSIGHTS_LIMIT == 30

Companies == 1 .. NumCompanies
Materials == 1 .. NumMaterials
Runs == 1 .. NumRuns
Regulations == 1 .. NumRegulations
\* a missing property of a node, and the null of an aggregate over no rows
NULL == "null"
Industries == {"Steel Production", "Chemical Processing"}

VARIABLES
    company,      \* the Company nodes, by id (Company.id is unique and ordered)
    industry,     \* Company.industry; NULL when missing or when the node is absent
    material,     \* the WasteMaterial nodes, by name
    produces,     \* PRODUCES edges <<company, material>>
    canUpcycle,   \* CAN_UPCYCLE edges <<company, material>>
    regulation,   \* the Regulation nodes
    compliance,   \* REQUIRES_COMPLIANCE edges <<material, regulation>>
    complements,  \* COMPLEMENTS edges <<material, material>>
    pm,           \* POTENTIAL_MATCH edges: records src, dst, score, shared, names, at
    now,          \* the store's transaction clock, read by datetime()
    pc,           \* each run's position in main()
    matches,      \* each run's result.records of step 2, while the process lives
    exitCode,     \* each run's process exit code; -1 while it runs
    lastTuples,   \* history: the persisted (pair, score, shared) tuples right after the last write
    prevTuples,   \* history: the same right after the write before the last
    mutSince,     \* history: the graph was changed since the last committed write
    mutations,    \* number of graph changes so far
    copies,       \* the number of WasteMaterial nodes of each name
    status,       \* WasteMaterial.status; NULL when missing or when the node is absent
    seeking,      \* the number of IS_SEEKING edges from each company to each material
    response,     \* the last response of an API route
    bid,          \* the Bid row of the relational store: status "none" before it is created
    hasQuantity,  \* the listed WasteMaterial has a quantity property
    quantity,     \* WasteMaterial.quantity of the listed material
    patch,        \* each PATCH /api/bids/[id] request: position, caller, body, the bid it read, reply
    postReply,    \* the status of the reply of POST /api/bids; 0 before it
    statusChanges, \* history: how often the bid's status was changed
    decrements,   \* history: how often the decrement query ran for the bid
    configured,   \* the NEO4J_ env vars of the server process are set
    instance,     \* the module variable of neo4j-graph: 0 for null, else the Neo4jGraph
    created,      \* the number of Neo4jGraph.initialize calls started
    call          \* each getNeo4jGraph call: position, the graph it builds, its result

graph == <<company, industry, material, produces, canUpcycle>>
rules == <<regulation, compliance, complements>>
runs == <<pc, matches, exitCode>>
history == <<lastTuples, prevTuples, mutSince>>
demand == <<copies, status, seeking>>
bids == <<bid, hasQuantity, quantity, patch, postReply, statusChanges, decrements>>
singleton == <<configured, instance, created, call>>
server == <<bids, singleton>>
vars == <<graph, rules, pm, now, runs, history, mutations, demand, response, server>>

\* ---- step 2 of main(): the similarity query ------------------------------

\* (c)-[:PRODUCES|CAN_UPCYCLE]->(w:WasteMaterial): the materials c reaches
Profile(c) ==
    {m \in material : <<c, m>> \in produces \/ <<c, m>> \in canUpcycle}

\* the materials w of the MATCH: those both companies reach
SharedSet(c1, c2) == Profile(c1) \cap Profile(c2)

\* mutant: count(w) without DISTINCT: one row per pair of relationships that
\* meet in a material
SharedRows(c1, c2) ==
    Cardinality({x \in material \X {"P", "U"} \X {"P", "U"} :
        /\ <<c1, x[1]>> \in (IF x[2] = "P" THEN produces ELSE canUpcycle)
        /\ <<c2, x[1]>> \in (IF x[3] = "P" THEN produces ELSE canUpcycle)})

\* count(DISTINCT w) AS shared
SharedCount(c1, c2) == Cardinality(SharedSet(c1, c2))

\* size([(c)-[:PRODUCES|CAN_UPCYCLE]->(w:WasteMaterial) | w]): a pattern
\* comprehension yields one entry per matching relationship, so a material
\* reached by both a PRODUCES and a CAN_UPCYCLE edge is counted twice
\* (every edge of the repository is MERGEd: at most one of a type per pair)
Total(c) ==
    Cardinality({m \in material : <<c, m>> \in produces})
        + Cardinality({m \in material : <<c, m>> \in canUpcycle})

\* the denominator c1Total + c2Total - shared of the query
Denominator(shared, c1Total, c2Total) == c1Total + c2Total - shared

\* mutant: a threshold of 0.10 passed as $threshold
MeetsTenth(shared, c1Total, c2Total) ==
    100 * shared >= 10 * Denominator(shared, c1Total, c2Total)

\* mutant: the threshold applied to the rounded score
MeetsRounded(shared, c1Total, c2Total) ==
    LET d == Denominator(shared, c1Total, c2Total)
    IN  (2000 * shared + d) \div (2 * d) >= 10 * JACCARD_THRESHOLD

\* WHERE jaccard >= $threshold, jaccard = toFloat(shared) / denominator
MeetsThreshold(shared, c1Total, c2Total) ==
    100 * shared >= JACCARD_THRESHOLD * Denominator(shared, c1Total, c2Total)

\* round(jaccard * 1000) / 1000.0, in thousandths; round() takes halves up
Score(shared, c1Total, c2Total) ==
    LET d == Denominator(shared, c1Total, c2Total)
    IN  (2000 * shared + d) \div (2 * d)

\* mutant: WHERE c1.id > c2.id
IdReversed(c1, c2) == c1 > c2

\* mutant: WHERE c1.id <> c2.id
IdDistinct(c1, c2) == c1 # c2

\* WHERE c1.id < c2.id
IdOrdered(c1, c2) == c1 < c2

\* mutant: a missing industry compared as a value of its own
IndustryNullAsValue(c1, c2) == industry[c1] # industry[c2]

\* mutant: the industry condition left out of the WHERE
IndustryUnfiltered(c1, c2) == TRUE

\* AND c1.industry <> c2.industry: a comparison with null is null, and WHERE
\* drops the row
IndustryDiffers(c1, c2) ==
    /\ industry[c1] # NULL
    /\ industry[c2] # NULL
    /\ industry[c1] # industry[c2]

\* mutant: the shared materials matched by OPTIONAL MATCH: a pair is grouped
\* whether or not a material joins it
CandidatePairsOptional ==
    {p \in company \X company :
        IdOrdered(p[1], p[2]) /\ IndustryDiffers(p[1], p[2])}

\* the pairs the MATCH ... WHERE of the query yields, grouped by (c1, c2)
CandidatePairs ==
    {p \in company \X company :
        /\ IdOrdered(p[1], p[2])
        /\ IndustryDiffers(p[1], p[2])
        /\ SharedSet(p[1], p[2]) # {}}

\* mutant: the shared materials matched by OPTIONAL MATCH and no threshold
\* applied: every cross-industry pair with a material on either side is kept
RetainedUnshared ==
    {p \in company \X company :
        /\ IdOrdered(p[1], p[2])
        /\ IndustryDiffers(p[1], p[2])
        /\ Total(p[1]) + Total(p[2]) > SharedCount(p[1], p[2])}

\* the pairs left by WHERE jaccard >= $threshold
RetainedPairs ==
    {p \in CandidatePairs :
        MeetsThreshold(SharedCount(p[1], p[2]), Total(p[1]), Total(p[2]))}

\* mutant: r.shared_names = sharedNames
NameAll(S) == {S}

\* sharedNames[0..5]: the first five of collect(DISTINCT w.name), whose order
\* is the traversal's; any five of the shared names can be the ones kept
NameSamples(S) ==
    IF Cardinality(S) <= SHARED_NAMES_LIMIT
    THEN {S}
    ELSE {T \in SUBSET S : Cardinality(T) = SHARED_NAMES_LIMIT}

\* the choices of a sample for every retained pair
NameChoices ==
    IF \A p \in RetainedPairs : Cardinality(SharedSet(p[1], p[2])) <= SHARED_NAMES_LIMIT
    THEN {[p \in RetainedPairs |-> SharedSet(p[1], p[2])]}
    ELSE {f \in [RetainedPairs ->
                    UNION {NameSamples(SharedSet(p[1], p[2])) : p \in RetainedPairs}] :
            \A p \in RetainedPairs : f[p] \in NameSamples(SharedSet(p[1], p[2]))}

\* mutant: r.computed_at = datetime.realtime(), read once per row while the
\* clock advances
EdgeOfRealtime(p, names, t) ==
    [src |-> p[1], dst |-> p[2],
     score |-> Score(SharedCount(p[1], p[2]), Total(p[1]), Total(p[2])),
     shared |-> SharedCount(p[1], p[2]),
     names |-> names, at |-> t + p[1] - 1]

\* the properties SET on the edge of pair p at transaction time t
EdgeOf(p, names, t) ==
    [src |-> p[1], dst |-> p[2],
     score |-> Score(SharedCount(p[1], p[2]), Total(p[1]), Total(p[2])),
     shared |-> SharedCount(p[1], p[2]),
     names |-> names, at |-> t]

\* MERGE (c1)-[r:POTENTIAL_MATCH]->(c2) SET r...: every existing edge c1->c2
\* is matched and overwritten, and one is created when there is none
MergeEdges(old, new) ==
    {e \in old : \A n \in new : ~(n.src = e.src /\ n.dst = e.dst)} \cup new

\* RETURN c1.name, c1.industry, c2.name, c2.industry, r.score, r.shared_materials
RecordOf(e) ==
    [company1 |-> e.src, industry1 |-> industry[e.src],
     company2 |-> e.dst, industry2 |-> industry[e.dst],
     score |-> e.score, shared |-> e.shared]

\* mutant: the delete query matches nothing
DeleteNothing(edges) == edges

\* mutant: the delete query spares the edges of the latest write
DeleteExpired(edges) == {e \in edges : e.at = now}

\* MATCH ()-[r:POTENTIAL_MATCH]->() DELETE r
DeleteEdges(edges) == {}

\* avg(r.score) of step 3: null over no edges, a float otherwise
AvgScore(edges) == IF edges = {} THEN NULL ELSE "float"

\* typeof avgScore === "object" ? avgScore.toNumber().toFixed(3) : ...
\* typeof null is "object", and null has no toNumber: a TypeError
VerifyThrows(edges) == AvgScore(edges) = NULL

\* history: the (pair, score, shared_materials) tuples of a set of edges
TuplesOf(edges) == {<<e.src, e.dst, e.score, e.shared>> : e \in edges}

\* ---- main() of compute_matches.js, one action per awaited step -----------

\* the finally block closes the session and the driver, and the process ends
\* with `code`: 1 is process.exit(1) of main().catch
Exit(r, code) ==
    /\ pc' = [pc EXCEPT ![r] = "exited"]
    /\ exitCode' = [exitCode EXCEPT ![r] = code]
    /\ matches' = [matches EXCEPT ![r] = {}]

\* the runs are numbered in the order in which they start
Started(r) == IF r = 1 THEN TRUE ELSE pc[r - 1] # "start"

\* await driver.verifyConnectivity() succeeds
Connect(r) ==
    /\ pc[r] = "start"
    /\ Started(r)
    /\ pc' = [pc EXCEPT ![r] = "connected"]
    /\ UNCHANGED <<graph, rules, server, pm, now, matches, exitCode, mutations>>

\* mutant: connectivity is verified only after the delete query was sent
ConnectFailAfterDelete(r) ==
    /\ pc[r] = "start"
    /\ Started(r)
    /\ Exit(r, 1)
    /\ pm' = DeleteEdges(pm)
    /\ UNCHANGED <<graph, rules, server, now, mutations>>

\* the env vars are missing, or verifyConnectivity() rejects: exit code 1
\* before any query is sent
ConnectFail(r) ==
    /\ pc[r] = "start"
    /\ Started(r)
    /\ Exit(r, 1)
    /\ UNCHANGED <<graph, rules, server, pm, now, mutations>>

\* mutant: MATCH (c)-[r:POTENTIAL_MATCH]->() DETACH DELETE c: the delete
\* query takes the matched companies with their edges
DeleteDetach(r) ==
    /\ pc[r] = "connected"
    /\ pm' = DeleteEdges(pm)
    /\ company' = company \ {e.src : e \in pm}
    /\ industry' = [c \in DOMAIN industry |-> IF c \in company' THEN industry[c] ELSE NULL]
    /\ produces' = {e \in produces : e[1] \in company'}
    /\ canUpcycle' = {e \in canUpcycle : e[1] \in company'}
    /\ pc' = [pc EXCEPT ![r] = "deleted"]
    /\ UNCHANGED <<material, rules, server, now, matches, exitCode, mutations>>

\* Step 1: the delete query commits
Delete(r) ==
    /\ pc[r] = "connected"
    /\ pm' = DeleteEdges(pm)
    /\ pc' = [pc EXCEPT ![r] = "deleted"]
    /\ UNCHANGED <<graph, rules, server, now, matches, exitCode, mutations>>

\* Step 1 rejects: the transaction is rolled back, finally closes, catch exits
DeleteFail(r) ==
    /\ pc[r] = "connected"
    /\ Exit(r, 1)
    /\ UNCHANGED <<graph, rules, server, pm, now, mutations>>

\* mutant: one transaction per retained pair, any of which may fail and be
\* skipped: some of the retained pairs are persisted
WritePartial(r) ==
    /\ pc[r] = "deleted"
    /\ \E names \in NameChoices, kept \in SUBSET RetainedPairs :
        LET new == {EdgeOf(p, names[p], now + 1) : p \in kept}
        IN  /\ pm' = MergeEdges(pm, new)
            /\ matches' = [matches EXCEPT ![r] = {RecordOf(e) : e \in new}]
    /\ now' = now + 1
    /\ pc' = [pc EXCEPT ![r] = "written"]
    /\ UNCHANGED <<graph, rules, server, exitCode, mutations>>

\* Step 2: the similarity query commits: one auto-commit transaction reads the
\* graph, MERGEs an edge per retained pair and returns the rows
Write(r) ==
    /\ pc[r] = "deleted"
    /\ \E names \in NameChoices :
        LET new == {EdgeOf(p, names[p], now + 1) : p \in RetainedPairs}
        IN  /\ pm' = MergeEdges(pm, new)
            /\ matches' = [matches EXCEPT ![r] = {RecordOf(e) : e \in new}]
    /\ now' = now + 1
    /\ pc' = [pc EXCEPT ![r] = "written"]
    /\ UNCHANGED <<graph, rules, server, exitCode, mutations>>

\* Step 2 rejects: nothing of it is committed
WriteFail(r) ==
    /\ pc[r] = "deleted"
    /\ Exit(r, 1)
    /\ UNCHANGED <<graph, rules, server, pm, now, mutations>>

\* Step 3: count and average of the edges in the graph, printed; then the
\* finally block, and the process ends: code 0, or 1 through main().catch
\* when formatting the average throws
Verify(r) ==
    /\ pc[r] = "written"
    /\ Exit(r, IF VerifyThrows(pm) THEN 1 ELSE 0)
    /\ UNCHANGED <<graph, rules, server, pm, now, mutations>>

\* Step 3 rejects: finally closes, catch exits with code 1
VerifyFail(r) ==
    /\ pc[r] = "written"
    /\ Exit(r, 1)
    /\ UNCHANGED <<graph, rules, server, pm, now, mutations>>

RunStep(r) ==
    \/ Connect(r)
    \/ ConnectFail(r)
    \/ Delete(r)
    \/ DeleteFail(r)
    \/ Write(r)
    \/ WriteFail(r)
    \/ Verify(r)
    \/ VerifyFail(r)

\* ---- the operations that change the graph the engine reads ---------------

\* one committed change of the graph and the reply sent after it: the new
\* nodes, edges and statuses, DETACH DELETE taking the edges of a deleted node
\* with it; a node MERGEd by a name that exists is that node
StoreNodes(c2, i2, m2, g2, p2, u2, s2, reply) ==
    /\ mutations < MaxMutations
    /\ company' = c2
    /\ regulation' = g2
    /\ compliance' = {e \in compliance : e[1] \in m2 /\ e[2] \in g2}
    /\ complements' = {e \in complements : e[1] \in m2 /\ e[2] \in m2}
    /\ industry' = [c \in Companies |-> IF c \in c2 THEN i2[c] ELSE NULL]
    /\ material' = m2
    /\ produces' = {e \in p2 : e[1] \in c2 /\ e[2] \in m2}
    /\ canUpcycle' = {e \in u2 : e[1] \in c2 /\ e[2] \in m2}
    /\ pm' = {e \in pm : e.src \in c2 /\ e.dst \in c2}
    /\ copies' = [m \in Materials |->
                    IF m \notin m2 THEN 0 ELSE IF m \in material THEN copies[m] ELSE 1]
    /\ status' = [m \in Materials |-> IF m \in m2 THEN s2[m] ELSE NULL]
    /\ seeking' = [e \in Companies \X Materials |->
                     IF e[1] \in c2 /\ e[2] \in m2 THEN seeking[e] ELSE 0]
    /\ response' = reply
    /\ mutations' = IF <<graph, rules, demand, response>>' = <<graph, rules, demand, response>>
                    THEN mutations ELSE mutations + 1
    /\ UNCHANGED <<now, runs, server>>

\* a committed change that deletes no Regulation node
Store(c2, i2, m2, p2, u2, s2, reply) ==
    StoreNodes(c2, i2, m2, regulation, p2, u2, s2, reply)

\* one committed change of the graph by a script: no reply
Commit(c2, i2, m2, p2, u2) == Store(c2, i2, m2, p2, u2, status, response)

\* ingest_to_neo4j.js step 3: MATCH (n) DETACH DELETE n
IngestWipe == StoreNodes({}, industry, {}, {}, {}, {}, status, response)

\* ingest_to_neo4j.js buildNodeCypher for a Company: MERGE (n:Company {id})
\* SET n += props, the industry being the one of the dataset file
IngestCompany(c, ind) ==
    Commit(company \cup {c}, [industry EXCEPT ![c] = ind], material, produces, canUpcycle)

\* ingest_to_neo4j.js buildNodeCypher for a WasteMaterial
IngestMaterial(m) ==
    Commit(company, industry, material \cup {m}, produces, canUpcycle)

\* ingest_to_neo4j.js buildEdgeCypher: MATCH src, MATCH tgt, MERGE the edge
IngestEdge(type, c, m) ==
    /\ c \in company
    /\ m \in material
    /\ IF type = "PRODUCES"
       THEN Commit(company, industry, material, produces \cup {<<c, m>>}, canUpcycle)
       ELSE Commit(company, industry, material, produces, canUpcycle \cup {<<c, m>>})

\* REGULATIONS[].appliesTo of the dataset: regulation g applies to waste g
AppliesTo == {<<g, g>> : g \in Regulations}

\* COMPLEMENTS_MAP of the dataset: handling waste 1 often requires waste 2
ComplementsMap == {<<1, 2>>}

\* a change of the Regulation nodes or of the edges between wastes and
\* regulations, which no other part of the graph depends on
CommitRules(g2, r2, k2) ==
    /\ mutations < MaxMutations
    /\ regulation' = g2
    /\ compliance' = r2
    /\ complements' = k2
    /\ mutations' = IF rules' = rules THEN mutations ELSE mutations + 1
    /\ UNCHANGED <<graph, server, pm, now, runs, demand, response>>

\* ingest_to_neo4j.js buildNodeCypher for a Regulation
IngestRegulation(g) == CommitRules(regulation \cup {g}, compliance, complements)

\* ingest_to_neo4j.js buildEdgeCypher for a REQUIRES_COMPLIANCE or COMPLEMENTS
\* edge of the dataset: MATCH src, MATCH tgt, MERGE the edge
IngestRule(type, m, x) ==
    /\ m \in material
    /\ IF type = "REQUIRES_COMPLIANCE"
       THEN /\ <<m, x>> \in AppliesTo
            /\ x \in regulation
            /\ CommitRules(regulation, compliance \cup {<<m, x>>}, complements)
       ELSE /\ <<m, x>> \in ComplementsMap
            /\ x \in material
            /\ CommitRules(regulation, compliance, complements \cup {<<m, x>>})

\* POST /api/auth/register: MERGE (c:Company {name}) ON CREATE SET c.industry, c.id
Register(c, ind) ==
    /\ ind # NULL
    /\ IF c \in company
       THEN Commit(company, industry, material, produces, canUpcycle)
       ELSE Commit(company \cup {c}, [industry EXCEPT ![c] = ind], material,
                   produces, canUpcycle)

\* the reply of a route whose query was rejected: status 500
ErrorReply(route) ==
    [route |-> route, status |-> 500, body |-> [error |-> "ServiceUnavailable"]]

\* MATCH (buyer:Company)-[r:IS_SEEKING]->(m:WasteMaterial {name: $name}): the
\* buyers of the rows
SeekingBuyers(m) == {c \in company : seeking[<<c, m>>] > 0}

\* the rows of that query: one per IS_SEEKING edge and node of the name
RECURSIVE SeekingRows(_, _)
SeekingRows(m, cs) ==
    IF cs = {} THEN 0
    ELSE LET c == CHOOSE x \in cs : TRUE
         IN  seeking[<<c, m>>] + SeekingRows(m, cs \ {c})

\* the 200 reply of POST /api/materials/add
AddReply(m) ==
    [route |-> "materials/add", status |-> 200,
     body |-> [name |-> m, matchedBuyers |-> SeekingBuyers(m),
               matchCount |-> SeekingRows(m, company)]]

\* mutant: ON MATCH leaves the status of the node
ListedStatusKept(old) == IF old = NULL THEN "available" ELSE old

\* ON CREATE SET m.status = 'available' ... ON MATCH SET m.status = 'available'
ListedStatus(old) == "available"

\* step 1 of POST /api/materials/add: MATCH the seller, MERGE the material by
\* name, set its status, MERGE (seller)-[:PRODUCES]->(m); nothing is written
\* when no Company has the seller's id
Listed(c, m, reply) ==
    IF c \in company
    THEN Store(company, industry, material \cup {m}, produces \cup {<<c, m>>}, canUpcycle,
               [status EXCEPT ![m] = ListedStatus(@)], reply)
    ELSE Store(company, industry, material, produces, canUpcycle, status, reply)

\* POST /api/materials/add by a logged-in seller of company c for the name m:
\* step 1, then the query of the IS_SEEKING buyers, returned as matchedBuyers
\* (the e-mails of step 3 leave the graph alone)
AddMaterial(c, m) == Listed(c, m, AddReply(m))

\* POST /api/materials/add whose step 1 is rejected: nothing is written
AddMaterialFail(c, m) ==
    Store(company, industry, material, produces, canUpcycle, status,
          ErrorReply("materials/add"))

\* POST /api/materials/add whose step 2 or 3 is rejected: the listing of
\* step 1 stays committed
AddMaterialFailListed(c, m) == Listed(c, m, ErrorReply("materials/add"))

\* a company is deleted from the graph (with its edges)
RemoveCompany(c) ==
    /\ c \in company
    /\ Commit(company \ {c}, industry, material, produces, canUpcycle)

\* a material is deleted from the graph (with its edges)
RemoveMaterial(m) ==
    /\ m \in material
    /\ Commit(company, industry, material \ {m}, produces, canUpcycle)

\* a PRODUCES or CAN_UPCYCLE edge is deleted
RemoveEdge(type, c, m) ==
    IF type = "PRODUCES"
    THEN /\ <<c, m>> \in produces
         /\ Commit(company, industry, material, produces \ {<<c, m>>}, canUpcycle)
    ELSE /\ <<c, m>> \in canUpcycle
         /\ Commit(company, industry, material, produces, canUpcycle \ {<<c, m>>})

EdgeTypes == {"PRODUCES", "CAN_UPCYCLE"}

Mutation ==
    /\ mutations < MaxMutations
    /\ \/ IngestWipe
       \/ \E c \in Companies, ind \in Industries \cup {NULL} : IngestCompany(c, ind)
       \/ \E m \in Materials : IngestMaterial(m)
       \/ \E t \in EdgeTypes, c \in Companies, m \in Materials : IngestEdge(t, c, m)
       \/ \E g \in Regulations : IngestRegulation(g)
       \/ \E e \in AppliesTo : IngestRule("REQUIRES_COMPLIANCE", e[1], e[2])
       \/ \E e \in ComplementsMap : IngestRule("COMPLEMENTS", e[1], e[2])
       \/ \E c \in Companies, ind \in Industries : Register(c, ind)
       \/ \E c \in Companies, m \in Materials : AddMaterial(c, m)
       \/ \E c \in Companies : RemoveCompany(c)
       \/ \E m \in Materials : RemoveMaterial(m)
       \/ \E t \in EdgeTypes, c \in Companies, m \in Materials : RemoveEdge(t, c, m)

\* ---- the engine against a changing graph ----------------------------------

\* no route has replied yet
NoResponse == [route |-> "none", status |-> 0, body |-> NULL]

\* the ingested wastes: one node per name, without a status property; nobody
\* is seeking anything
FreshDemand ==
    /\ copies = [m \in Materials \cup material |-> IF m \in material THEN 1 ELSE 0]
    /\ status = [m \in Materials \cup material |-> NULL]
    /\ seeking = [e \in Companies \X (Materials \cup material) |-> 0]
    /\ response = NoResponse

Requests == 1 .. NumRequests
Calls == 1 .. NumCalls

\* no bid has been placed, no request is being served, and the module
\* variable of neo4j-graph is null
IdleServer ==
    /\ bid = [status |-> "none", quantity |-> 0, materialId |-> FALSE]
    /\ hasQuantity = FALSE
    /\ quantity = 0
    /\ patch = [r \in Requests |->
                  [pc |-> "start", who |-> "none", decision |-> "none",
                   seen |-> bid, reply |-> 0]]
    /\ postReply = 0
    /\ statusChanges = 0
    /\ decrements = 0
    /\ configured = TRUE
    /\ instance = 0
    /\ created = 0
    /\ call = [c \in Calls |-> [pc |-> "start", building |-> 0, result |-> 0]]

\* no process of the engine is running, nothing has been recorded
NoRun ==
    /\ pc = [r \in Runs |-> "start"]
    /\ matches = [r \in Runs |-> {}]
    /\ exitCode = [r \in Runs |-> -1]
    /\ lastTuples = {}
    /\ prevTuples = {}
    /\ mutSince = FALSE
    /\ mutations = 0

\* no run has started, no edge has been computed
RunsInit ==
    /\ FreshDemand
    /\ IdleServer
    /\ pm = {}
    /\ now = 0
    /\ NoRun

\* the ingested graph: SteelCo (1, Steel Production) produces SlagA (1) and SlagB (2);
\* ChemCo (2, Chemical Processing) produces SlagA and Acid1 (3)
\* the ingested regulation and the edges of the wastes: regulation 1 applies
\* to waste 1, and waste 1 complements waste 2
SeedRules ==
    /\ regulation = Regulations
    /\ compliance = {e \in AppliesTo : e[1] \in material}
    /\ complements = {e \in ComplementsMap : e[1] \in material /\ e[2] \in material}

SeedGraph ==
    /\ company = {1, 2}
    /\ industry = [c \in Companies |->
                     IF c = 1 THEN "Steel Production" ELSE IF c = 2 THEN "Chemical Processing" ELSE NULL]
    /\ material = {1, 2, 3}
    /\ produces = {<<1, 1>>, <<1, 2>>, <<2, 1>>, <<2, 3>>}
    /\ canUpcycle = {}
    /\ SeedRules

Init == SeedGraph /\ RunsInit

\* runs of the engine, started at any time, and changes of the graph
Next ==
    \/ \E r \in Runs : RunStep(r) /\ UNCHANGED <<history, demand, response>>
    \/ Mutation /\ UNCHANGED history

Spec == Init /\ [][Next]_vars

\* ---- runs executed one after the other -------------------------------------

\* run r starts after every run before it has ended
InSuccession(r) == \A q \in Runs : q < r => pc[q] = "exited"

\* history of the writes: what each left persisted, and whether the graph
\* changed since
Recorded ==
    IF now' # now
    THEN /\ lastTuples' = TuplesOf(pm')
         /\ prevTuples' = lastTuples
         /\ mutSince' = FALSE
    ELSE /\ UNCHANGED <<lastTuples, prevTuples>>
         /\ mutSince' = (mutSince \/ graph' # graph)

SeqNext ==
    \/ \E r \in Runs : InSuccession(r) /\ RunStep(r) /\ Recorded
                        /\ UNCHANGED <<demand, response>>
    \/ Mutation /\ Recorded

SpecSeq == Init /\ [][SeqNext]_vars

\* ---- one run over any ingested graph of two companies ----------------------

\* how a company is linked to a material: not at all, by PRODUCES, by
\* CAN_UPCYCLE, or by both (the generated dataset links the companies of an
\* industry to a waste of their own that their industry can also upcycle)
Links == 0 .. 3

HasProduces(link) == link \in {1, 3}

HasCanUpcycle(link) == link \in {2, 3}

\* company 1 is in Steel Production or has no industry; company 2 is in either
\* industry, or has no industry.  The engine counts materials and never tells one from another, so
\* the graphs are taken up to a renaming of the materials: link[m] = 4 * (link
\* of company 1) + (link of company 2), non-decreasing in m
ScoreInit ==
    /\ company = {1, 2}
    /\ \E ind1 \in {"Steel Production", NULL}, ind \in Industries \cup {NULL} :
        industry = [c \in Companies |->
                      IF c = 1 THEN ind1 ELSE IF c = 2 THEN ind ELSE NULL]
    /\ material = Materials
    /\ \E link \in [Materials -> 0 .. 15] :
        /\ \A m \in Materials : m > 1 => link[m - 1] <= link[m]
        /\ produces =
             {<<1, m>> : m \in {x \in Materials : HasProduces(link[x] \div 4)}}
               \cup {<<2, m>> : m \in {x \in Materials : HasProduces(link[x] % 4)}}
        /\ canUpcycle =
             {<<1, m>> : m \in {x \in Materials : HasCanUpcycle(link[x] \div 4)}}
               \cup {<<2, m>> : m \in {x \in Materials : HasCanUpcycle(link[x] % 4)}}
    /\ SeedRules
    /\ RunsInit

ScoreNext == RunStep(1) /\ UNCHANGED <<history, mutations, demand, response>>

SpecScore == ScoreInit /\ [][ScoreNext]_vars

\* ---- one run over two companies that share many materials ------------------

\* the names of the wastes of the two companies
NamedMaterials == 1 .. NumNamed

\* two companies of different industries; every waste is produced by the
\* first, by the second, or by both (link 1, 2, 3), the graphs being taken up
\* to a renaming of the wastes
NamesInit ==
    /\ company = {1, 2}
    /\ industry = [c \in Companies |->
                     IF c = 1 THEN "Steel Production"
                     ELSE IF c = 2 THEN "Chemical Processing" ELSE NULL]
    /\ material = NamedMaterials
    /\ \E link \in [NamedMaterials -> 1 .. 3] :
        /\ \A m \in NamedMaterials : m > 1 => link[m - 1] <= link[m]
        /\ produces = {<<1, m>> : m \in {x \in NamedMaterials : link[x] \in {1, 3}}}
                        \cup {<<2, m>> : m \in {x \in NamedMaterials : link[x] \in {2, 3}}}
    /\ canUpcycle = {}
    /\ SeedRules
    /\ RunsInit

SpecNames == NamesInit /\ [][ScoreNext]_vars

\* ---- one run over two companies with many materials ------------------------

\* two companies of different industries: the first produces `union` wastes,
\* of which the second produces `shared` and no other; the similarity is
\* shared / union, taken up to 0.13: below the threshold, at it, and just above
RoundInit ==
    /\ company = {1, 2}
    /\ industry = [c \in Companies |->
                     IF c = 1 THEN "Steel Production"
                     ELSE IF c = 2 THEN "Chemical Processing" ELSE NULL]
    /\ \E shared \in 1 .. MaxShared : \E union \in shared .. MaxUnion :
        /\ 100 * shared <= 13 * union
        /\ material = 1 .. union
        /\ produces = {<<1, m>> : m \in 1 .. union} \cup {<<2, m>> : m \in 1 .. shared}
    /\ canUpcycle = {}
    /\ SeedRules
    /\ RunsInit

SpecRound == RoundInit /\ [][ScoreNext]_vars

\* ---- runs in succession over several companies ------------------------------

StampedCompanies == 1 .. NumStamped

\* companies of either industry, each producing waste 1 and possibly waste 2
StampInit ==
    /\ company = StampedCompanies
    /\ industry \in [StampedCompanies -> Industries]
    /\ material = {1, 2}
    /\ \E second \in SUBSET StampedCompanies :
        produces = {<<c, 1>> : c \in StampedCompanies} \cup {<<c, 2>> : c \in second}
    /\ canUpcycle = {}
    /\ SeedRules
    /\ RunsInit

\* each run starts after the run before it has ended; the graph stays as it is
StampNext ==
    \E r \in Runs :
        InSuccession(r) /\ RunStep(r) /\ UNCHANGED <<history, demand, response>>

SpecStamp == StampInit /\ [][StampNext]_vars

\* ---- GET /api/hybrid-search: the insights of the dashboard -----------------

\* the row RETURNed for an edge (names, industries and locations are
\* properties of its two companies)
InsightOf(e) ==
    [company1 |-> e.src, company2 |-> e.dst, score |-> e.score,
     sharedMaterials |-> e.shared, sharedNames |-> e.names]

\* the subsets of S that have k elements
RECURSIVE SubsetsOfSize(_, _)
SubsetsOfSize(S, k) ==
    IF k = 0 THEN {{}}
    ELSE IF Cardinality(S) < k THEN {}
    ELSE LET x == CHOOSE y \in S : TRUE
         IN  SubsetsOfSize(S \ {x}, k) \cup
               {T \cup {x} : T \in SubsetsOfSize(S \ {x}, k - 1)}

\* mutant: LIMIT 30 without ORDER BY: any 30 of the edges
AnyInsights(edges) ==
    IF Cardinality(edges) <= INSIGHTS_LIMIT
    THEN {edges}
    ELSE {edges \ out : out \in SubsetsOfSize(edges, Cardinality(edges) - INSIGHTS_LIMIT)}

\* ORDER BY r.score DESC LIMIT 30: the edges the query can return.  All of
\* them when there are at most 30; else those above the score of the 30th and,
\* of the edges of that score, as many as fill the 30, in the store's choice
TopInsights(edges) ==
    IF Cardinality(edges) <= INSIGHTS_LIMIT
    THEN {edges}
    ELSE LET cut == CHOOSE x \in {e.score : e \in edges} :
                      /\ Cardinality({e \in edges : e.score > x}) < INSIGHTS_LIMIT
                      /\ Cardinality({e \in edges : e.score >= x}) >= INSIGHTS_LIMIT
             above == {e \in edges : e.score > cut}
             ties == {e \in edges : e.score = cut}
         IN  {above \cup (ties \ out) :
                out \in SubsetsOfSize(ties,
                          Cardinality(above) + Cardinality(ties) - INSIGHTS_LIMIT)}

\* the scores of the returned rows in the order of the response: descending
RECURSIVE ScoresDescending(_)
ScoresDescending(edges) ==
    IF edges = {} THEN <<>>
    ELSE LET top == CHOOSE e \in edges : \A f \in edges : f.score <= e.score
         IN  <<top.score>> \o ScoresDescending(edges \ {top})

\* mutant: a handler that reads the first record
InsightsStatusFirstRow(edges) == IF edges = {} THEN 500 ELSE 200

\* records.map: typeof r.score === "object" ? r.score.low ?? ... : a score that
\* is not a number but null is an "object" whose .low throws, and the catch
\* replies 500
InsightsStatus(edges) == IF \E e \in edges : e.score \notin Nat THEN 500 ELSE 200

\* the reply for the rows the query returned
InsightsReply(edges) ==
    IF InsightsStatus(edges) = 200
    THEN [route |-> "insights", status |-> 200,
          body |-> [insights |-> {InsightOf(e) : e \in edges},
                    scores |-> ScoresDescending(edges)]]
    ELSE [route |-> "insights", status |-> 500, body |-> [error |-> "TypeError"]]

\* GET /api/hybrid-search answered by the store
GetInsights ==
    /\ \E rows \in TopInsights(pm) : response' = InsightsReply(rows)
    /\ UNCHANGED <<graph, rules, server, pm, now, runs, history, mutations, demand>>

\* GET /api/hybrid-search when getNeo4jGraph() or the query rejects
GetInsightsFail ==
    /\ response' = ErrorReply("insights")
    /\ UNCHANGED <<graph, rules, server, pm, now, runs, history, mutations, demand>>

\* the ingested graph with the edges an earlier run of the engine left in it
ReadInit ==
    /\ SeedGraph
    /\ FreshDemand
    /\ IdleServer
    /\ pm = {EdgeOf(p, SharedSet(p[1], p[2]), 0) : p \in RetainedPairs}
    /\ now = 0
    /\ NoRun

\* runs of the engine while the dashboard reads
ReadNext ==
    \/ \E r \in Runs : RunStep(r) /\ UNCHANGED <<history, demand, response>>
    \/ GetInsights
    \/ GetInsightsFail

SpecRead == ReadInit /\ [][ReadNext]_vars

\* ---- the dashboard over many edges ---------------------------------------------

PartnerIds == 1 .. NumPartners

\* the pairs a < b of partners counted 1, 2, 3, ...: (1,2), (1,3), (2,3), (1,4), ...
Rank(a, b) == ((b - 1) * (b - 2)) \div 2 + a

\* any number of edges up to MaxEdges, left by an earlier run between
\* companies that all produce one waste; the query reads the scores only, so
\* the edges are taken up to a renaming of the companies: the scores, 0.120,
\* 0.500 or 1.000, do not decrease along the pairs
InsightsInit ==
    /\ company = PartnerIds
    /\ industry = [c \in PartnerIds |->
                     IF c % 2 = 1 THEN "Steel Production" ELSE "Chemical Processing"]
    /\ material = {1}
    /\ produces = {<<c, 1>> : c \in PartnerIds}
    /\ canUpcycle = {}
    /\ SeedRules
    /\ IdleServer
    /\ FreshDemand
    /\ \E n \in 0 .. MaxEdges : \E i \in 0 .. n : \E j \in i .. n :
        LET f == [k \in 1 .. n |-> IF k <= i THEN 120 ELSE IF k <= j THEN 500 ELSE 1000]
        IN
           pm = {[src |-> q[1], dst |-> q[2], score |-> f[Rank(q[1], q[2])],
                  shared |-> 1, names |-> {1}, at |-> 0] :
                    q \in {x \in PartnerIds \X PartnerIds :
                              x[1] < x[2] /\ Rank(x[1], x[2]) <= n}}
    /\ now = 0
    /\ NoRun

\* one read of the dashboard
InsightsNext ==
    \/ response = NoResponse /\ GetInsights
    \/ response = NoResponse /\ GetInsightsFail

SpecInsights == InsightsInit /\ [][InsightsNext]_vars

\* ---- POST /api/demand/search: demand capture ----------------------------------

\* the names buyers search for
Queries == {m \in Materials : m > NumMaterials - NumQueried}

\* (producer:Company)-[:PRODUCES]->(waste): the wastes a search can return
Supplied == {m \in material : \E c \in company : <<c, m>> \in produces}

\* supplyResults: the produced wastes whose embedding is within 0.7 of the
\* query's, or, when the vector search throws, whose name or description
\* contains the query; which wastes these are is the store's and the embedding
\* model's matter
SearchOutcomes == {S \in SUBSET Supplied : Cardinality(S) <= MaxResults}

\* mutant: CREATE instead of MERGE
CreateCount(n) == n + 1

\* MERGE: the nodes (edges) that match are bound, and one is created when
\* none does
MergeCount(n) == IF n = 0 THEN 1 ELSE n

\* the reply of a search that found supply
SupplyFound(results) ==
    [route |-> "demand/search", status |-> 200,
     body |-> [status |-> "supply_found", results |-> results,
               demandRegistered |-> FALSE]]

\* the reply of a search that registered demand
DemandRegistered(c, q) ==
    [route |-> "demand/search", status |-> 200,
     body |-> [status |-> "demand_registered", results |-> {},
               demandRegistered |-> TRUE, materialName |-> q, companyId |-> c]]

\* POST /api/demand/search by a logged-in buyer of company c for the name q:
\* the supply search, and when it returns nothing, MATCH the company, MERGE the
\* ghost WasteMaterial by name (ON CREATE status 'requested'), MERGE the
\* IS_SEEKING edge (the e-mail leaves the graph alone)
DemandSearch(c, q) ==
    /\ \E results \in SearchOutcomes :
        IF results # {}
        THEN /\ response' = SupplyFound(results)
             /\ UNCHANGED <<material, demand>>
        ELSE /\ response' = DemandRegistered(c, q)
             /\ IF c \in company
                THEN /\ material' = material \cup {q}
                     /\ copies' = [copies EXCEPT ![q] = MergeCount(@)]
                     /\ status' = [status EXCEPT
                                     ![q] = IF copies[q] = 0 THEN "requested" ELSE @]
                     /\ seeking' = [seeking EXCEPT ![<<c, q>>] = MergeCount(@)]
                ELSE UNCHANGED <<material, demand>>
    /\ UNCHANGED <<company, industry, produces, canUpcycle, rules, server, pm, now, runs, mutations>>

\* POST /api/demand/search when a query is rejected: nothing is written
DemandSearchFail(c, q) ==
    /\ response' = ErrorReply("demand/search")
    /\ UNCHANGED <<graph, rules, server, pm, now, runs, mutations, demand>>

\* the number of IS_SEEKING edges
RECURSIVE SeekingTotal(_)
SeekingTotal(es) ==
    IF es = {} THEN 0
    ELSE LET e == CHOOSE x \in es : TRUE
         IN  seeking[e] + SeekingTotal(es \ {e})

\* company c is seeking q already, or fewer than MaxDemands demands are
\* registered
MaySearch(c, q) ==
    \/ seeking[<<c, q>>] > 0
    \/ SeekingTotal(DOMAIN seeking) < MaxDemands

\* buyers searching for the names of Queries, sellers listing them, and the
\* ingest wiping the graph
DemandNext ==
    \/ \E c \in Companies, q \in Queries :
          MaySearch(c, q) /\ DemandSearch(c, q) /\ UNCHANGED history
    \/ \E c \in Companies, q \in Queries : DemandSearchFail(c, q) /\ UNCHANGED history
    \/ \E c \in Companies, m \in Queries : AddMaterial(c, m) /\ UNCHANGED history
    \/ \E c \in Companies, m \in Queries : AddMaterialFail(c, m) /\ UNCHANGED history
    \/ \E c \in Companies, m \in Queries : AddMaterialFailListed(c, m) /\ UNCHANGED history
    \/ IngestWipe /\ UNCHANGED history

SpecDemand == Init /\ [][DemandNext]_vars

\* ---- /api/bids: placing a bid, and the seller's decision -------------------

\* body.quantity of POST /api/bids: any JSON number
BidQuantities == (0 - MaxQuantity) .. MaxQuantity

\* the callers: the seller of the listing, another logged-in user, nobody
Callers == {"seller", "other", "anonymous"}

\* body.status of PATCH: one of the two decisions, or anything else
Decisions == {"accepted", "rejected", "other"}

\* request r is answered with `code`
Answer(r, code) ==
    patch' = [patch EXCEPT ![r].pc = "done", ![r].reply = code]

\* the frame of the bids routes
BidsFrame ==
    UNCHANGED <<graph, rules, pm, now, runs, history, mutations, demand, response,
                singleton>>

\* POST /api/bids by `who` with body.quantity q and, or not, a materialId:
\* 401 without a session, 400 when !quantity (0 is falsy) or when the seller
\* bids on their own listing, else prisma.bid.create and 200
PlaceBid(who, q, mid) ==
    /\ postReply = 0
    /\ IF who = "anonymous"
       THEN postReply' = 401 /\ bid' = bid
       ELSE IF q = 0 \/ who = "seller"
       THEN postReply' = 400 /\ bid' = bid
       ELSE /\ postReply' = 200
            /\ bid' = [status |-> "pending", quantity |-> q, materialId |-> mid]
    /\ UNCHANGED <<hasQuantity, quantity, patch, statusChanges, decrements>>
    /\ BidsFrame

\* POST /api/bids whose prisma.bid.create rejects: 500
PlaceBidFail(q) ==
    /\ postReply = 0
    /\ q # 0
    /\ postReply' = 500
    /\ UNCHANGED <<bid, hasQuantity, quantity, patch, statusChanges, decrements>>
    /\ BidsFrame

\* PATCH /api/bids/[id] up to the end of its first await after the checks of
\* the body: 401, 400 for a status that is no decision, then findUnique and
\* 404, 403, 400 when the bid read is not pending; else the request goes on
\* with the bid it read
PatchFind(r, who, decision) ==
    /\ patch[r].pc = "start"
    /\ IF who = "anonymous" THEN Answer(r, 401)
       ELSE IF decision = "other" THEN Answer(r, 400)
       ELSE IF bid.status = "none" THEN Answer(r, 404)
       ELSE IF who # "seller" THEN Answer(r, 403)
       ELSE IF bid.status # "pending" THEN Answer(r, 400)
       ELSE patch' = [patch EXCEPT ![r] =
                        [pc |-> "found", who |-> who, decision |-> decision,
                         seen |-> bid, reply |-> 0]]
    /\ UNCHANGED <<bid, hasQuantity, quantity, postReply, statusChanges, decrements>>
    /\ BidsFrame

\* PATCH whose findUnique rejects: the outer catch answers 500
PatchFindFail(r) ==
    /\ patch[r].pc = "start"
    /\ Answer(r, 500)
    /\ UNCHANGED <<bid, hasQuantity, quantity, postReply, statusChanges, decrements>>
    /\ BidsFrame

\* prisma.bid.update({ where: { id }, data: { status: body.status } }): the
\* status is set whatever it is by now; a rejection, or an acceptance of a
\* bid without materialId, is answered 200 at once
PatchUpdate(r) ==
    /\ patch[r].pc = "found"
    /\ bid' = [bid EXCEPT !.status = patch[r].decision]
    /\ statusChanges' = IF bid'.status # bid.status THEN statusChanges + 1 ELSE statusChanges
    /\ IF patch[r].decision = "accepted" /\ patch[r].seen.materialId
       THEN patch' = [patch EXCEPT ![r].pc = "updated"]
       ELSE Answer(r, 200)
    /\ UNCHANGED <<hasQuantity, quantity, postReply, decrements>>
    /\ BidsFrame

\* prisma.bid.update rejects: the outer catch answers 500
PatchUpdateFail(r) ==
    /\ patch[r].pc = "found"
    /\ Answer(r, 500)
    /\ UNCHANGED <<bid, hasQuantity, quantity, postReply, statusChanges, decrements>>
    /\ BidsFrame

\* SET w.quantity = CASE WHEN w.quantity - $qty < 0 THEN 0 ELSE w.quantity - $qty END
Decremented(old, qty) == IF old - qty < 0 THEN 0 ELSE old - qty

\* the decrement query of an accepted bid, with the quantity of the bid read
\* at the start (WHERE w.quantity IS NOT NULL), then 200
PatchDecrement(r) ==
    /\ patch[r].pc = "updated"
    /\ quantity' = IF hasQuantity THEN Decremented(quantity, patch[r].seen.quantity)
                   ELSE quantity
    /\ decrements' = decrements + 1
    /\ Answer(r, 200)
    /\ UNCHANGED <<bid, hasQuantity, postReply, statusChanges>>
    /\ BidsFrame

\* getNeo4jGraph or the decrement query rejects: the inner catch logs it,
\* and the request is answered 200
PatchDecrementFail(r) ==
    /\ patch[r].pc = "updated"
    /\ Answer(r, 200)
    /\ UNCHANGED <<bid, hasQuantity, quantity, postReply, statusChanges, decrements>>
    /\ BidsFrame

\* a listed material with or without a quantity, no bid yet
BidsInit ==
    /\ SeedGraph
    /\ FreshDemand
    /\ pm = {}
    /\ now = 0
    /\ NoRun
    /\ bid = [status |-> "none", quantity |-> 0, materialId |-> FALSE]
    /\ \E n \in 0 .. MaxQuantity, has \in BOOLEAN :
        /\ hasQuantity = has
        /\ quantity = IF has THEN n ELSE 0
    /\ patch = [r \in Requests |->
                  [pc |-> "start", who |-> "none", decision |-> "none",
                   seen |-> bid, reply |-> 0]]
    /\ postReply = 0
    /\ statusChanges = 0
    /\ decrements = 0
    /\ configured = TRUE
    /\ instance = 0
    /\ created = 0
    /\ call = [c \in Calls |-> [pc |-> "start", building |-> 0, result |-> 0]]

\* one bid is placed, and PATCH requests for it are served concurrently
BidsNext ==
    \/ \E who \in Callers, q \in BidQuantities, mid \in BOOLEAN : PlaceBid(who, q, mid)
    \/ \E q \in BidQuantities : PlaceBidFail(q)
    \/ \E r \in Requests, who \in Callers, d \in Decisions : PatchFind(r, who, d)
    \/ \E r \in Requests : PatchFindFail(r)
    \/ \E r \in Requests : PatchUpdate(r)
    \/ \E r \in Requests : PatchUpdateFail(r)
    \/ \E r \in Requests : PatchDecrement(r)
    \/ \E r \in Requests : PatchDecrementFail(r)

SpecBids == BidsInit /\ [][BidsNext]_vars

\* ---- getNeo4jGraph: the shared Neo4jGraph of the server process -------------

\* the frame of getNeo4jGraph
GraphFrame ==
    UNCHANGED <<graph, rules, pm, now, runs, history, mutations, demand, response, bids>>

\* getNeo4jGraph up to its await: the cached instance is returned when there
\* is one; else missing credentials throw; else Neo4jGraph.initialize starts
GetStart(c) ==
    /\ call[c].pc = "start"
    /\ IF instance # 0
       THEN /\ call' = [call EXCEPT ![c] = [pc |-> "done", building |-> 0, result |-> instance]]
            /\ created' = created
       ELSE IF ~configured
       THEN /\ call' = [call EXCEPT ![c].pc = "thrown"]
            /\ created' = created
       ELSE /\ created' = created + 1
            /\ call' = [call EXCEPT ![c] =
                          [pc |-> "initializing", building |-> created + 1, result |-> 0]]
    /\ UNCHANGED <<configured, instance>>
    /\ GraphFrame

\* instance = await Neo4jGraph.initialize(...); return instance
GetFinish(c) ==
    /\ call[c].pc = "initializing"
    /\ instance' = call[c].building
    /\ call' = [call EXCEPT ![c].pc = "done", ![c].result = instance']
    /\ UNCHANGED <<configured, created>>
    /\ GraphFrame

\* Neo4jGraph.initialize rejects: the call throws, instance stays as it is
GetFail(c) ==
    /\ call[c].pc = "initializing"
    /\ call' = [call EXCEPT ![c].pc = "thrown"]
    /\ UNCHANGED <<configured, instance, created>>
    /\ GraphFrame

\* a server process after a cold start, with or without its credentials
GraphInit ==
    /\ SeedGraph
    /\ FreshDemand
    /\ pm = {}
    /\ now = 0
    /\ NoRun
    /\ bid = [status |-> "none", quantity |-> 0, materialId |-> FALSE]
    /\ hasQuantity = FALSE
    /\ quantity = 0
    /\ patch = [r \in Requests |->
                  [pc |-> "start", who |-> "none", decision |-> "none",
                   seen |-> bid, reply |-> 0]]
    /\ postReply = 0
    /\ statusChanges = 0
    /\ decrements = 0
    /\ configured \in BOOLEAN
    /\ instance = 0
    /\ created = 0
    /\ call = [c \in Calls |-> [pc |-> "start", building |-> 0, result |-> 0]]

\* the routes call getNeo4jGraph concurrently
GraphNext ==
    \/ \E c \in Calls : GetStart(c)
    \/ \E c \in Calls : GetFinish(c)
    \/ \E c \in Calls : GetFail(c)

SpecGraph == GraphInit /\ [][GraphNext]_vars

\* ---- the properties ---------------------------------------------------------

\* run r commits its delete in this step
Deletes(r) == pc[r] = "connected" /\ pc'[r] = "deleted"

\* run r commits its write in this step
Writes(r) == pc[r] = "deleted" /\ pc'[r] = "written"

\* companies a and b exist and reach a common material by PRODUCES or CAN_UPCYCLE
SharesMaterial(a, b) ==
    /\ a \in company
    /\ b \in company
    /\ \E m \in material :
        /\ <<a, m>> \in produces \cup canUpcycle
        /\ <<b, m>> \in produces \cup canUpcycle

\* a POTENTIAL_MATCH edge joins a and b, in either direction
Matched(edges, a, b) == \E e \in edges : {e.src, e.dst} = {a, b}

\* C1: of two runs executed one after the other, the second leaves no edge for
\* a pair that the first had matched and that no longer shares a material when
\* the second computes
C1_WipeBeforeWrite ==
    [][\A r \in Runs : Writes(r) =>
          \A t \in lastTuples :
              ~SharesMaterial(t[1], t[2]) => ~Matched(pm', t[1], t[2])]_vars

\* C1 witness: the second run has written, the graph is as it read it, and a
\* pair the first run matched shares nothing any more and has no edge
C1_Witness ==
    /\ \E r \in Runs : pc[r] = "written"
    /\ now = 2
    /\ ~mutSince
    /\ \E t \in prevTuples :
        ~SharesMaterial(t[1], t[2]) /\ ~Matched(pm, t[1], t[2])

\* C2: in every reachable state two companies are joined by at most one
\* POTENTIAL_MATCH edge: not one in each direction, not two in the same
C2_OneEdgePerPair ==
    \A e1 \in pm : \A e2 \in pm :
        {e1.src, e1.dst} = {e2.src, e2.dst} => e1 = e2

\* C2 witness: two runs overlapped, both have written, and the pair's edge is
\* the one the later write merged
C2_Witness ==
    /\ \A r \in {1, 2} : pc[r] = "written"
    /\ \E e \in pm : e.at = 2

\* C3: every edge a run writes joins two companies whose industries differ in
\* the graph that run read
C3_CrossIndustry ==
    [][\A r \in Runs : Writes(r) =>
          \A e \in pm' : e.at = now' => industry[e.src] # industry[e.dst]]_vars

\* C3 witness: a run has written nothing for two companies of one industry
\* that share a material
C3_Witness ==
    /\ \E r \in Runs : pc[r] = "written" /\ matches[r] = {}
    /\ now = 1
    /\ pm = {}
    /\ industry[1] # NULL
    /\ industry[1] = industry[2]
    /\ SharesMaterial(1, 2)

\* C4: every persisted edge has a score of at least 0.12 (120 thousandths)
C4_ScoreAtLeastThreshold == \A e \in pm : e.score >= 120

\* C4 witness: a run has written, and a cross-industry pair that shares a
\* material was left without an edge
C4_Witness ==
    /\ pc[1] = "written"
    /\ industry[1] = "Steel Production"
    /\ industry[2] = "Chemical Processing"
    /\ SharesMaterial(1, 2)
    /\ pm = {}

\* the set of distinct materials company c reaches
DistinctProfile(c) == {m \in material : <<c, m>> \in produces \cup canUpcycle}

\* |P(a) \cap P(b)| / |P(a) \cup P(b)| rounded to 3 decimals, in thousandths
SetJaccard(a, b) ==
    LET inter == Cardinality(DistinctProfile(a) \cap DistinctProfile(b))
        union == Cardinality(DistinctProfile(a) \cup DistinctProfile(b))
    IN  (2000 * inter + union) \div (2 * union)

\* C5: the stored score of every persisted pair is the Jaccard similarity of
\* the two sets of distinct materials, rounded to 3 decimals
C5_ScoreIsSetJaccard == \A e \in pm : e.score = SetJaccard(e.src, e.dst)

\* C6: once a run has written, every pair of companies of different industries
\* that shares a material and whose set similarity is at least 0.12 has an edge
C6_NoQualifyingPairOmitted ==
    \A r \in Runs : pc[r] = "written" =>
        \A a \in company : \A b \in company :
            ( /\ a < b
              /\ industry[a] # NULL
              /\ industry[b] # NULL
              /\ industry[a] # industry[b]
              /\ SharesMaterial(a, b)
              /\ 100 * Cardinality(DistinctProfile(a) \cap DistinctProfile(b))
                   >= 12 * Cardinality(DistinctProfile(a) \cup DistinctProfile(b)) )
            => Matched(pm, a, b)

\* C7: a run that writes after an earlier run's write, with no change of the
\* graph in between, leaves the same (pair, score, shared_materials) tuples
\* persisted as that earlier write left
C7_Idempotent ==
    [][\A r \in Runs : (Writes(r) /\ now >= 1 /\ ~mutSince) =>
          {<<e.src, e.dst, e.score, e.shared>> : e \in pm'} = lastTuples]_vars

\* C7 witness: two runs have written over a graph that never changed, and the
\* second left the matches the first had left
C7_Witness ==
    /\ now = 2
    /\ mutations = 0
    /\ \E r \in Runs : pc[r] = "written"
    /\ lastTuples # {}
    /\ lastTuples = prevTuples
    /\ {<<e.src, e.dst, e.score, e.shared>> : e \in pm} = lastTuples

\* C8: a run that found no match ends its verification with exit code 0
C8_EmptyRunSucceeds ==
    [][\A r \in Runs : (pc[r] = "written" /\ pc'[r] = "exited" /\ matches[r] = {})
          => exitCode'[r] = 0]_vars

\* C9: while a run is between its delete and its write, no other run commits
\* a delete or a write
C9_SingleWriter ==
    [][\A q \in Runs : pc[q] = "deleted" =>
          \A r \in Runs \ {q} : ~Deletes(r) /\ ~Writes(r)]_vars

\* C10: right after a run's write, the pairs joined by an edge are exactly the
\* pairs that run retained
C10_ReflectsLatestRun ==
    [][\A r \in Runs : Writes(r) =>
          {<<e.src, e.dst>> : e \in pm'}
              = {<<m.company1, m.company2>> : m \in matches'[r]}]_vars

\* C11: a failure while step 2 writes does not abort the run: the run goes on
\* to its verification, and of the pairs it retained at most the failing one
\* is left without an edge
C11_PairFailureSkipped ==
    [][\A r \in Runs : (pc[r] = "deleted" /\ pc'[r] # "deleted") =>
          /\ pc'[r] = "written"
          /\ Cardinality({p \in RetainedPairs : ~Matched(pm', p[1], p[2])}) <= 1]_vars

\* C12: a run that fails before it is connected ends with a non-zero exit code
\* and leaves the POTENTIAL_MATCH edges as they were
C12_ConnectFailureChangesNothing ==
    [][\A r \in Runs : (pc[r] = "start" /\ pc'[r] = "exited") =>
          /\ exitCode'[r] # 0
          /\ pm' = pm]_vars

\* C12 witness: one run has written its edges, and the other has ended with
\* exit code 1 while those edges are all still there
C12_Witness ==
    /\ pc[1] = "written"
    /\ pc[2] = "exited"
    /\ exitCode[2] = 1
    /\ now = 1
    /\ pm # {}
    /\ \A e \in pm : e.at = 1

C15_SharedNamesCapped ==
    \A e \in pm :
        /\ Cardinality(e.names) <= 5
        /\ e.names \subseteq DistinctProfile(e.src) \cap DistinctProfile(e.dst)

\* C15 witness: an edge of a pair that shares more than 5 materials carries 5
\* names
C15_Witness ==
    \E e \in pm :
        /\ Cardinality(DistinctProfile(e.src) \cap DistinctProfile(e.dst)) > 5
        /\ e.shared > 5
        /\ Cardinality(e.names) = 5

\* C16: shared_materials of every persisted edge is the number of distinct
\* materials both companies reach
C16_SharedMaterialsDistinct ==
    \A e \in pm :
        e.shared = Cardinality(DistinctProfile(e.src) \cap DistinctProfile(e.dst))

\* C16 witness: an edge of a pair whose only shared material is reached by both
\* companies through both edge types
C16_Witness ==
    \E e \in pm :
        /\ e.shared = 1
        /\ \E m \in material :
            /\ DistinctProfile(e.src) \cap DistinctProfile(e.dst) = {m}
            /\ \A c \in {e.src, e.dst} : <<c, m>> \in produces /\ <<c, m>> \in canUpcycle

\* C20: every POTENTIAL_MATCH edge goes from the company with the smaller id to
\* the company with the larger id
C20_SmallerIdToLarger == \A e \in pm : e.src < e.dst

\* C20 witness: a run has ended normally and left the edge from company 1 to
\* company 2
C20_Witness ==
    /\ pc[1] = "exited"
    /\ exitCode[1] = 0
    /\ \E e \in pm : e.src = 1 /\ e.dst = 2

\* C13: a dashboard read that the store answers, at any point of a run, is a
\* 200 response that lists the edges present at that moment: none between a
\* run's delete and its write
C13_ReadToleratesRecompute ==
    [][GetInsights =>
          /\ response'.status = 200
          /\ response'.body.insights = {InsightOf(e) : e \in pm}]_vars

\* C13 witness: a run has deleted the edges of the earlier run and not yet
\* written, and the dashboard got a 200 response with no insight
C13_Witness ==
    /\ pc[1] = "deleted"
    /\ pc[2] = "start"
    /\ now = 0
    /\ pm = {}
    /\ response.route = "insights"
    /\ response.status = 200
    /\ response.body.insights = {}

\* C17: a 200 response of GET insights has at most 30 rows (30 when there are
\* that many edges), all of them edges, in non-increasing score order, and no
\* edge left out has a score greater than that of a returned row
C17_TopThirtyByScore ==
    (response.route = "insights" /\ response.status = 200) =>
        LET rows == response.body.insights
            scores == response.body.scores
            all == {InsightOf(e) : e \in pm}
        IN  /\ rows \subseteq all
            /\ Cardinality(rows) <= 30
            /\ Cardinality(all) >= 30 => Cardinality(rows) = 30
            /\ Len(scores) = Cardinality(rows)
            /\ \A k \in 1 .. Len(scores) :
                  /\ \E x \in rows : x.score = scores[k]
                  /\ k > 1 => scores[k - 1] >= scores[k]
            /\ \A x \in rows : \E k \in 1 .. Len(scores) : scores[k] = x.score
            /\ \A out \in all \ rows : \A x \in rows : out.score <= x.score

\* C17 witness: of more than 30 edges the response has 30, and an edge of a
\* lower score than every returned row was left out together with none of a
\* higher one
C17_Witness ==
    /\ Cardinality(pm) > 30
    /\ response.route = "insights"
    /\ response.status = 200
    /\ Cardinality(response.body.insights) = 30
    /\ response.body.scores[1] > response.body.scores[30]
    /\ \E e \in pm :
        /\ InsightOf(e) \notin response.body.insights
        /\ e.score < response.body.scores[30]

\* C18: a demand search changes the graph only when its supply search returned
\* nothing, a ghost it creates has status 'requested', and after a search by
\* an existing company that registered demand, the first or a repeated one,
\* there is exactly one WasteMaterial of the name and exactly one IS_SEEKING
\* edge from the company to it
C18_DemandRegisteredOnce ==
    [][\A c \in Companies : \A q \in Queries :
          /\ ( /\ response'.route = "demand/search"
               /\ (material' # material \/ demand' # demand)
               /\ DemandSearch(c, q) ) =>
                /\ response'.body.results = {}
                /\ response'.body.demandRegistered
          /\ ( /\ response'.route = "demand/search"
               /\ response' = DemandRegistered(c, q)
               /\ c \in company
               /\ DemandSearch(c, q) ) =>
                /\ copies'[q] = 1
                /\ seeking'[<<c, q>>] = 1
                /\ copies[q] = 0 => status'[q] = "requested"]_vars

\* C18 witness: both companies have registered demand for the same new name:
\* one ghost node, requested, and one edge from each
C18_Witness ==
    /\ response.route = "demand/search"
    /\ response.status = 200
    /\ response.body.demandRegistered
    /\ \E q \in Queries :
        /\ response.body.materialName = q
        /\ copies[q] = 1
        /\ status[q] = "requested"
        /\ \A c \in company : seeking[<<c, q>>] = 1
        /\ \A c \in company : <<c, q>> \notin produces
    /\ Cardinality(company) = 2

\* C19: a listing, by an existing seller, of a name for which demand is
\* registered creates no second node, leaves the material 'available' and
\* returns every company that is seeking it in matchedBuyers
C19_ListingMatchesDemand ==
    [][\A c \in Companies : \A m \in Materials :
          ( /\ response'.route = "materials/add"
            /\ response'.status = 200
            /\ response' = AddReply(m)
            /\ c \in company
            /\ copies[m] >= 1
            /\ AddMaterial(c, m) ) =>
              /\ copies'[m] = copies[m]
              /\ status'[m] = "available"
              /\ <<c, m>> \in produces'
              /\ \A b \in company :
                    seeking[<<b, m>>] > 0 => b \in response'.body.matchedBuyers]_vars

\* C19 witness: a ghost that both companies were seeking has been listed: it is
\* the one node of its name, available, and both are in matchedBuyers
C19_Witness ==
    /\ response.route = "materials/add"
    /\ response.status = 200
    /\ response.body.matchedBuyers = {1, 2}
    /\ response.body.matchCount = 2
    /\ copies[response.body.name] = 1
    /\ status[response.body.name] = "available"
    /\ \E c \in company : <<c, response.body.name>> \in produces

\* C21: the delete step of a run leaves no POTENTIAL_MATCH edge at all, a run
\* commits its write only from the position after its own delete, and no step
\* other than a run's write adds an edge
C21_DeleteBeforeWrite ==
    [][/\ \A r \in Runs :
            /\ Deletes(r) => pm' = {}
            /\ (pc'[r] = "written" /\ pc[r] # "written") => pc[r] = "deleted"
       /\ (pm' \ pm # {}) => \E r \in Runs : Writes(r)]_vars

\* C21 witness: the first run wrote the edge of the ingested pair, and the
\* second run's delete has since removed it
C21_Witness ==
    /\ pc[2] = "deleted"
    /\ pc[1] \in {"written", "exited"}
    /\ now = 1
    /\ mutations = 0
    /\ pm = {}

\* C22: a run that ends after its delete without having written ends with a
\* non-zero exit code and leaves no edge, and a run that ends with a non-zero
\* exit code after its write leaves only edges of its own results
C22_FailedRunLeavesOwnEdges ==
    [][\A r \in Runs :
          /\ (pc[r] = "deleted" /\ pc'[r] = "exited") =>
                 exitCode'[r] # 0 /\ pm' = {}
          /\ (pc[r] = "written" /\ pc'[r] = "exited" /\ exitCode'[r] # 0) =>
                 \A e \in pm' : \E m \in matches[r] :
                     /\ m.company1 = e.src
                     /\ m.company2 = e.dst
                     /\ m.score = e.score
                     /\ m.shared = e.shared]_vars

\* C23: every persisted edge has shared_materials >= 1 and a score above 0,
\* and joins two companies that reach a common material: a pair with nothing
\* in common, such as one with a company that reaches no material, has no edge
C23_EdgesShareMaterial ==
    \A e \in pm :
        /\ e.shared >= 1
        /\ e.score > 0
        /\ SharesMaterial(e.src, e.dst)
        /\ DistinctProfile(e.src) # {}
        /\ DistinctProfile(e.dst) # {}

\* C23 witness: the run has written over two companies of different
\* industries, the first of which reaches no material, and left no edge
C23_Witness ==
    /\ pc[1] = "written"
    /\ industry[1] = "Steel Production"
    /\ industry[2] = "Chemical Processing"
    /\ DistinctProfile(1) = {}
    /\ DistinctProfile(2) # {}
    /\ pm = {}

\* C24: for every pair the query groups, shared >= 1, each total is at least
\* shared, and the denominator c1Total + c2Total - shared is at least 1; the
\* same holds of the pair of every persisted edge
C24_DenominatorPositive ==
    /\ \A p \in CandidatePairs :
        LET shared == SharedCount(p[1], p[2])
        IN  /\ shared >= 1
            /\ Total(p[1]) >= shared
            /\ Total(p[2]) >= shared
            /\ Denominator(shared, Total(p[1]), Total(p[2])) >= 1
    /\ \A e \in pm : Denominator(e.shared, Total(e.src), Total(e.dst)) >= 1

\* C24 witness: the run has written and ended normally over two companies of
\* different industries neither of which reaches a material: nothing was
\* scored
C24_Witness ==
    /\ pc[1] = "written"
    /\ industry[1] = "Steel Production"
    /\ industry[2] = "Chemical Processing"
    /\ Total(1) = 0
    /\ Total(2) = 0
    /\ pm = {}

\* C25: a step of a run leaves the Company, WasteMaterial and Regulation
\* nodes with their properties and the PRODUCES, CAN_UPCYCLE,
\* REQUIRES_COMPLIANCE, COMPLEMENTS and IS_SEEKING edges as they were, whether
\* the step succeeds or fails
C25_RunChangesOnlyMatches ==
    [][pc' # pc =>
          /\ <<company, industry, material, copies, status>>'
                = <<company, industry, material, copies, status>>
          /\ <<regulation, compliance, complements>>'
                = <<regulation, compliance, complements>>
          /\ <<produces, canUpcycle, seeking>>' = <<produces, canUpcycle, seeking>>]_vars

\* C25 witness: one run has ended normally and the other with exit code 1
\* after the first run's edge was written, and the ingested graph is as it was
C25_Witness ==
    /\ \A r \in Runs : pc[r] = "exited"
    /\ \E r \in Runs : exitCode[r] = 0
    /\ \E r \in Runs : exitCode[r] = 1
    /\ mutations = 0
    /\ now >= 1
    /\ company = {1, 2}
    /\ material = {1, 2, 3}
    /\ regulation = Regulations
    /\ compliance # {}
    /\ complements # {}
    /\ produces = {<<1, 1>>, <<1, 2>>, <<2, 1>>, <<2, 3>>}

\* C26: every persisted edge joins a pair whose unrounded similarity
\* shared / denominator is at least 0.12, and its score, in thousandths, is
\* the integer nearest to 1000 times that similarity: a pair below 0.12 has no
\* edge even when its similarity rounds to 0.120
C26_ThresholdBeforeRounding ==
    \A e \in pm :
        LET d == Denominator(e.shared, Total(e.src), Total(e.dst))
        IN  /\ 100 * e.shared >= 12 * d
            /\ e.score \in Nat
            /\ 2 * d * e.score - d <= 2000 * e.shared
            /\ 2000 * e.shared < 2 * d * e.score + d

\* C26 witness: the run has written over a pair with 11 shared materials of a
\* union of 92, whose similarity 0.1196 rounds to 0.120, and left no edge
C26_Witness ==
    /\ pc[1] = "written"
    /\ SharedCount(1, 2) = 11
    /\ Denominator(SharedCount(1, 2), Total(1), Total(2)) = 92
    /\ Score(SharedCount(1, 2), Total(1), Total(2)) = 120
    /\ pm = {}

\* C27: with runs executed one after the other, every edge persisted right
\* after a run's write, and every edge persisted when that run ends, carries
\* the time of that run's write: none keeps the time of an earlier run, and
\* all carry the same
C27_StampedByLatestRun ==
    [][\A r \in Runs :
          /\ Writes(r) => \A e \in pm' : e.at = now'
          /\ (pc[r] = "written" /\ pc'[r] = "exited") => \A e \in pm' : e.at = now]_vars

\* C27 witness: two runs have ended normally one after the other, and the
\* edges of two pairs all carry the time of the second run's write
C27_Witness ==
    /\ \A r \in {1, 2} : pc[r] = "exited" /\ exitCode[r] = 0
    /\ now = 2
    /\ \E e1 \in pm : \E e2 \in pm : e1.src # e2.src
    /\ \A e \in pm : e.at = 2

\* C28: the status of a bid is changed at most once and the decrement query
\* runs at most once for it, and a PATCH that reads a decided bid is answered
\* 400 without a change
C28_DecidedOnce ==
    /\ statusChanges <= 1
    /\ decrements <= 1

\* C29: the decrement of an accepted bid leaves the material's quantity
\* between 0 and what it was, and any other step of a PATCH leaves it unchanged
C29_QuantityNeverGrows ==
    [][\A r \in Requests :
          IF patch[r].pc = "updated" /\ patch'[r].pc = "done"
          THEN 0 <= quantity' /\ quantity' <= quantity
          ELSE patch'[r] # patch[r] => quantity' = quantity]_vars

\* C30: all calls of getNeo4jGraph that have returned, whether they started
\* before or after the first initialisation finished, have returned the same
\* Neo4jGraph
C30_SingleInstance ==
    \A c1 \in Calls : \A c2 \in Calls :
        (call[c1].pc = "done" /\ call[c2].pc = "done") =>
            call[c1].result = call[c2].result

====
